---- MODULE Spec2Model ----
(***************************************************************************)
(* The CD-ROM drive controller of pctation (src/src/io/cdrom_drive.cpp)    *)
(* as a state machine.  The three entry points read_reg, write_reg and     *)
(* step, and insert_disk_file, are the actions; the drive is one record    *)
(* of the object's fields, which the handlers transform.  A failed gsl     *)
(* contract (Expects / Ensures) stops the program: `failed' is set, the    *)
(* fields keep the values they had when the contract failed, and no        *)
(* entry point runs afterwards.                                            *)
(*                                                                         *)
(* io/cdrom_drive.hpp, util/bit_utils and the disc image (CdromDisk) are   *)
(* not part of the sources at hand; what the model needs of them           *)
(* (constants, bit layouts, initial values, set_state, reset, sector_size, *)
(* BCD helpers, the disc backend) follows the specification document.      *)
(***************************************************************************)
EXTENDS Integers, Sequences, FiniteSets, TLC

-----------------------------------------------------------------------------
(* Program constants                                                       *)

MAX_FIFO_SIZE == 16

READ_SECTOR_DELAY_STEPS == 3

FirstInt3 == 3

SecondInt2 == 2

SecondInt1 == 1

ErrorInt5 == 5

SECTOR_SIZE_DATA_ONLY == 2048

SECTOR_SIZE_WHOLE == 2340

-----------------------------------------------------------------------------
(* Bounds of the model                                                     *)

\* irq_fifo has no bound in the code: step() is not taken when a delivery
\* would make it longer than this.
MaxIrqLen == 18

\* Sector fetches explored past the seek position.
MaxFetch == 1

\* Parameter bytes that are drawn freely; the bytes written after them are 0.
MaxFreeParams == 1

\* Bytes of a sector read one by one from its start.
MaxDataReads == 2

-----------------------------------------------------------------------------
(* Bytes                                                                   *)

Bit(v, k) == (v \div (2 ^ k)) % 2

RECURSIVE BitAnd(_, _)
BitAnd(a, b) ==
    IF a = 0 \/ b = 0 THEN 0
    ELSE (a % 2) * (b % 2) + 2 * BitAnd(a \div 2, b \div 2)

B2N(b) == IF b THEN 1 ELSE 0

bcd_to_dec(x) == (x \div 16) * 10 + (x % 16)

dec_to_bcd(x) == ((x \div 10) % 16) * 16 + (x % 10)

\* 'S', 'C', 'E', 'A'
GetIdLicense == <<83, 67, 69, 65>>

-----------------------------------------------------------------------------
(* Bit fields                                                              *)

\* CdromStatusRegister::byte
StatusByte(rs) ==
    rs.index
      + 4 * B2N(rs.adpcm_fifo_empty)
      + 8 * B2N(rs.param_fifo_empty)
      + 16 * B2N(rs.param_fifo_write_ready)
      + 32 * B2N(rs.response_fifo_not_empty)
      + 64 * B2N(rs.data_fifo_not_empty)
      + 128 * B2N(rs.transmit_busy)

\* CdromStatusCode::byte
StatByte(sc) ==
    B2N(sc.error)
      + 2 * B2N(sc.spindle_motor_on)
      + 4 * B2N(sc.seek_error)
      + 8 * B2N(sc.id_error)
      + 16 * B2N(sc.shell_open)
      + 32 * B2N(sc.reading)
      + 64 * B2N(sc.seeking)
      + 128 * B2N(sc.playing)

CdromReadState == {"Stopped", "Seeking", "Playing", "Reading"}

\* CdromStatusCode::set_state
set_state(sc, state) ==
    [sc EXCEPT !.reading = (state = "Reading"),
               !.seeking = (state = "Seeking"),
               !.playing = (state = "Playing")]

\* CdromStatusCode::reset
stat_reset(sc) ==
    [error |-> FALSE, spindle_motor_on |-> FALSE, seek_error |-> FALSE,
     id_error |-> FALSE, shell_open |-> FALSE, reading |-> FALSE,
     seeking |-> FALSE, playing |-> FALSE]

\* CdromMode::sector_size
sector_size(mode) ==
    IF Bit(mode, 5) = 1 THEN SECTOR_SIZE_WHOLE ELSE SECTOR_SIZE_DATA_ONLY

-----------------------------------------------------------------------------
(* The disc image (CdromDisk) and positions (CdromPosition)                *)

\* "none": no image was ever loaded; "blank": an image without tracks;
\* "data": every sector is a Data sector; "mixed": Data, Audio and unreadable
\* sectors.
Discs == {"none", "blank", "data", "mixed"}

disk_is_empty(d) == d \in {"none", "blank"}

\* The kinds CdromDisk::read can report for a sector of the image.
disk_read_kinds(d) ==
    CASE d = "data" -> {"Data"}
      [] d = "mixed" -> {"Data", "Audio", "Invalid"}
      [] OTHER -> {"Invalid"}

disk_track_count(d) ==
    CASE d = "data" -> 1
      [] d = "mixed" -> 2
      [] OTHER -> 0

\* <<minutes, seconds>> of CdromDisk::size
disk_size(d) == IF disk_is_empty(d) THEN <<0, 0>> ELSE <<12, 34>>

\* <<minutes, seconds>> of CdromDisk::get_track_start
disk_track_start(d, n) ==
    IF n >= 1 /\ n <= disk_track_count(d) THEN <<n - 1, 2>> ELSE <<0, 0>>

\* CdromPosition::to_lba
to_lba(mm, ss, ff) == (mm * 60 + ss) * 75 + ff - 150

\* Byte `off' of the raw sector at `lba'.
SectorByte(lba, off) == (lba * 7 + off) % 256

-----------------------------------------------------------------------------
(* State                                                                   *)

VARIABLES
    reg_status,             \* m_reg_status: the status register's fields
    reg_int_enable,         \* m_reg_int_enable
    stat_code,              \* m_stat_code
    mode,                   \* m_mode.byte
    param_fifo,             \* m_param_fifo
    resp_fifo,              \* m_resp_fifo
    irq_fifo,               \* m_irq_fifo
    seek_sector,            \* m_seek_sector
    read_sector,            \* m_read_sector
    steps_until_read_sect,  \* m_steps_until_read_sect
    read_buf,               \* m_read_buf: {} or {lba of the sector it holds}
    data_buf,               \* m_data_buf: {} or {lba of the sector it holds}
    data_buffer_index,      \* m_data_buffer_index
    disk,                   \* m_disk
    failed,                 \* a contract (Expects / Ensures) has failed
    triggered,              \* m_interrupts->trigger calls of the last entry-point call
    read_age,               \* history: see NoRead
    data_age                \* history: see NoWant

vars ==
    <<reg_status, reg_int_enable, stat_code, mode, param_fifo, resp_fifo,
      irq_fifo, seek_sector, read_sector, steps_until_read_sect, read_buf,
      data_buf, data_buffer_index, disk, failed, triggered, read_age,
      data_age>>

\* The drive as one value, for the handlers below.
Drive ==
    [reg_status |-> reg_status, reg_int_enable |-> reg_int_enable,
     stat_code |-> stat_code, mode |-> mode, param_fifo |-> param_fifo,
     resp_fifo |-> resp_fifo, irq_fifo |-> irq_fifo,
     seek_sector |-> seek_sector, read_sector |-> read_sector,
     steps_until_read_sect |-> steps_until_read_sect, read_buf |-> read_buf,
     data_buf |-> data_buf, data_buffer_index |-> data_buffer_index,
     disk |-> disk, failed |-> failed, triggered |-> triggered]

Install(s) ==
    /\ reg_status' = s.reg_status
    /\ reg_int_enable' = s.reg_int_enable
    /\ stat_code' = s.stat_code
    /\ mode' = s.mode
    /\ param_fifo' = s.param_fifo
    /\ resp_fifo' = s.resp_fifo
    /\ irq_fifo' = s.irq_fifo
    /\ seek_sector' = s.seek_sector
    /\ read_sector' = s.read_sector
    /\ steps_until_read_sect' = s.steps_until_read_sect
    /\ read_buf' = s.read_buf
    /\ data_buf' = s.data_buf
    /\ data_buffer_index' = s.data_buffer_index
    /\ disk' = s.disk
    /\ failed' = s.failed
    /\ triggered' = s.triggered

\* The drive after construction.
InitDrive ==
    [reg_status |->
        [index |-> 0, adpcm_fifo_empty |-> FALSE, param_fifo_empty |-> TRUE,
         param_fifo_write_ready |-> TRUE, response_fifo_not_empty |-> FALSE,
         data_fifo_not_empty |-> FALSE, transmit_busy |-> FALSE],
     reg_int_enable |-> 0,
     stat_code |->
        [error |-> FALSE, spindle_motor_on |-> FALSE, seek_error |-> FALSE,
         id_error |-> FALSE, shell_open |-> TRUE, reading |-> FALSE,
         seeking |-> FALSE, playing |-> FALSE],
     mode |-> 0, param_fifo |-> <<>>, resp_fifo |-> <<>>, irq_fifo |-> <<>>,
     seek_sector |-> 0, read_sector |-> 0,
     steps_until_read_sect |-> READ_SECTOR_DELAY_STEPS,
     read_buf |-> {}, data_buf |-> {}, data_buffer_index |-> 0,
     disk |-> "none", failed |-> FALSE, triggered |-> 0]

\* A failed Expects / Ensures.
Fail(s) == [s EXCEPT !.failed = TRUE]

-----------------------------------------------------------------------------
(* Responses and parameters                                                *)

\* push_response_byte without the test of the size of resp_fifo.
push_response_byte_unchecked(s, response_byte) ==
    [s EXCEPT !.resp_fifo = Append(@, response_byte),
              !.reg_status.response_fifo_not_empty = TRUE]

\* One turn of the loop of push_response: a byte goes to resp_fifo, or is
\* lost when resp_fifo is full.
push_response_byte(s, response_byte) ==
    IF Len(s.resp_fifo) < MAX_FIFO_SIZE
    THEN [s EXCEPT !.resp_fifo = Append(@, response_byte),
                   !.reg_status.response_fifo_not_empty = TRUE]
    ELSE s

RECURSIVE push_response_bytes(_, _)
push_response_bytes(s, bytes) ==
    IF bytes = <<>> THEN s
    ELSE push_response_bytes(push_response_byte(s, Head(bytes)), Tail(bytes))

\* push_response giving up the interrupt code as well when resp_fifo is full.
push_response_skips_when_full(s, type, bytes) ==
    IF Len(s.resp_fifo) < MAX_FIFO_SIZE
    THEN push_response_bytes([s EXCEPT !.irq_fifo = Append(@, type)], bytes)
    ELSE s

\* push_response(type, {bytes})
push_response(s, type, bytes) ==
    push_response_bytes([s EXCEPT !.irq_fifo = Append(@, type)], bytes)

\* push_response_stat(type)
push_response_stat(s, type) ==
    push_response(s, type, <<StatByte(s.stat_code)>>)

command_error(s) == push_response(s, ErrorInt5, <<17, 64>>)

\* get_param: the drive after the call; the value returned is the head of
\* param_fifo before it.
get_param(s) ==
    IF s.failed THEN s
    ELSE IF s.param_fifo = <<>> THEN Fail(s)
    ELSE [s EXCEPT !.param_fifo = Tail(@),
                   !.reg_status.param_fifo_empty = (Tail(s.param_fifo) = <<>>),
                   !.reg_status.param_fifo_write_ready = TRUE]

RECURSIVE get_params(_, _)
get_params(s, n) == IF n = 0 THEN s ELSE get_params(get_param(s), n - 1)

-----------------------------------------------------------------------------
(* execute_command: one definition per case of the switch.  Each takes the *)
(* drive after irq_fifo and resp_fifo were cleared.                        *)

\* 0x01 Getstat
CmdGetstat(s) == push_response_stat(s, FirstInt3)

\* 0x02 Setloc
CmdSetloc(s) ==
    LET p == s.param_fifo
        s3 == get_params(s, 3)
    IN  IF s3.failed THEN s3
        ELSE push_response_stat(
                 [s3 EXCEPT !.seek_sector =
                     to_lba(bcd_to_dec(p[1]), bcd_to_dec(p[2]), bcd_to_dec(p[3]))],
                 FirstInt3)

\* 0x0D Setfilter
CmdSetfilter(s) ==
    LET p == s.param_fifo
        s2 == get_params(s, 2)
    IN  IF s2.failed THEN s2
        ELSE push_response(s2, FirstInt3,
                 <<StatByte(s2.stat_code), dec_to_bcd(bcd_to_dec(p[1])),
                   dec_to_bcd(bcd_to_dec(p[2]))>>)

\* 0x03 Play, 0x11 GetlocP
CmdPlay(s) ==
    IF s.param_fifo # <<>> THEN Fail(s)
    ELSE push_response_stat(
             [s EXCEPT !.read_sector = s.seek_sector,
                       !.stat_code = set_state(@, "Playing")],
             FirstInt3)

\* CmdReadN reloading the delay counter.
CmdReadN_reloads_delay(s) ==
    push_response_stat(
        [s EXCEPT !.read_sector = s.seek_sector,
                  !.steps_until_read_sect = READ_SECTOR_DELAY_STEPS,
                  !.stat_code = set_state(@, "Reading")],
        FirstInt3)

\* CmdReadN setting the reading bit alone.
CmdReadN_sets_bit_only(s) ==
    push_response_stat(
        [s EXCEPT !.read_sector = s.seek_sector,
                  !.stat_code.reading = TRUE],
        FirstInt3)

\* 0x06 ReadN, 0x1B ReadS
CmdReadN(s) ==
    push_response_stat(
        [s EXCEPT !.read_sector = s.seek_sector,
                  !.stat_code = set_state(@, "Reading")],
        FirstInt3)

\* 0x07 MotorOn
CmdMotorOn(s) ==
    LET s1 == [s EXCEPT !.stat_code.spindle_motor_on = TRUE]
    IN  push_response_stat(push_response_stat(s1, FirstInt3), SecondInt2)

\* 0x08 Stop
CmdStop(s) ==
    LET s1 == [s EXCEPT !.stat_code =
                   [set_state(@, "Stopped") EXCEPT !.spindle_motor_on = FALSE]]
    IN  push_response_stat(push_response_stat(s1, FirstInt3), SecondInt2)

\* 0x09 Pause
CmdPause_answers_after(s) ==
    LET s1 == [s EXCEPT !.stat_code = set_state(@, "Stopped")]
        s2 == push_response_stat(s1, FirstInt3)
    IN  push_response_stat(s2, SecondInt2)

\* 0x09 Pause
CmdPause(s) ==
    LET s1 == push_response_stat(s, FirstInt3)
        s2 == [s1 EXCEPT !.stat_code = set_state(@, "Stopped")]
    IN  push_response_stat(s2, SecondInt2)

\* CmdSetmode storing a parameter with bit 4 set.
CmdSetmode_accepts_bit4(s) ==
    LET s1 == push_response_stat(s, FirstInt3)
        s2 == get_param(s1)
    IN  IF s2.failed THEN s2
        ELSE [s2 EXCEPT !.mode = Head(s1.param_fifo)]

\* 0x0E Setmode
CmdSetmode(s) ==
    LET s1 == push_response_stat(s, FirstInt3)
        s2 == get_param(s1)
    IN  IF s2.failed THEN s2
        ELSE IF Bit(Head(s1.param_fifo), 4) = 1 THEN Fail(s2)
        ELSE [s2 EXCEPT !.mode = Head(s1.param_fifo)]

\* 0x0B Mute, 0x0C Demute.  m_muted, which they set and nothing reads, is not
\* part of the state.
CmdMute(s) == push_response_stat(s, FirstInt3)

\* 0x0F Getparam
CmdGetparam(s) == push_response(s, FirstInt3, <<StatByte(s.stat_code), 0, 0>>)

\* 0x13 GetTN
CmdGetTN(s) ==
    push_response(s, FirstInt3,
        <<StatByte(s.stat_code), dec_to_bcd(1),
          dec_to_bcd(disk_track_count(s.disk))>>)

\* 0x14 GetTD
CmdGetTD(s) ==
    LET s1 == get_param(s)
        track_number == bcd_to_dec(Head(s.param_fifo))
        disk_pos == IF track_number = 0 THEN disk_size(s.disk)
                    ELSE disk_track_start(s.disk, track_number)
    IN  IF s1.failed THEN s1
        ELSE push_response(s1, FirstInt3,
                 <<StatByte(s1.stat_code), dec_to_bcd(disk_pos[1]),
                   dec_to_bcd(disk_pos[2])>>)

\* CmdSeekL leaving read_sector where it is.
CmdSeekL_keeps_read_sector(s) ==
    LET s1 == push_response_stat(s, FirstInt3)
        s2 == [s1 EXCEPT !.stat_code = set_state(@, "Seeking")]
    IN  push_response_stat(s2, SecondInt2)

\* 0x15 SeekL
CmdSeekL(s) ==
    LET s1 == push_response_stat(s, FirstInt3)
        s2 == [s1 EXCEPT !.read_sector = s1.seek_sector,
                         !.stat_code = set_state(@, "Seeking")]
    IN  push_response_stat(s2, SecondInt2)

\* CmdTest answering every subfunction with the version.
CmdTest_accepts_any(s) ==
    LET s1 == get_param(s)
    IN  IF s1.failed THEN s1
        ELSE push_response(s1, FirstInt3, <<148, 9, 25, 192>>)

\* 0x19 Test
CmdTest(s) ==
    LET s1 == get_param(s)
    IN  IF s1.failed THEN s1
        ELSE IF Head(s.param_fifo) = 32
             THEN push_response(s1, FirstInt3, <<148, 9, 25, 192>>)
             ELSE command_error(s1)

\* CmdGetID without the test of shell_open.
CmdGetID_ignores_shell(s) ==
    IF ~disk_is_empty(s.disk)
    THEN push_response(push_response(s, FirstInt3, <<StatByte(s.stat_code)>>),
                       SecondInt2, <<2, 0, 32, 0>> \o GetIdLicense)
    ELSE push_response(push_response(s, FirstInt3, <<StatByte(s.stat_code)>>),
                       ErrorInt5, <<8, 64, 0, 0, 0, 0, 0, 0>>)

\* 0x1A GetID
CmdGetID(s) ==
    IF s.stat_code.shell_open
    THEN push_response(s, ErrorInt5, <<17, 128>>)
    ELSE IF ~disk_is_empty(s.disk)
    THEN push_response(push_response(s, FirstInt3, <<StatByte(s.stat_code)>>),
                       SecondInt2, <<2, 0, 32, 0>> \o GetIdLicense)
    ELSE push_response(push_response(s, FirstInt3, <<StatByte(s.stat_code)>>),
                       ErrorInt5, <<8, 64, 0, 0, 0, 0, 0, 0>>)

\* 0x0A Init
CmdInit(s) ==
    LET s1 == push_response_stat(s, FirstInt3)
        s2 == [s1 EXCEPT !.stat_code =
                   [stat_reset(@) EXCEPT !.spindle_motor_on = TRUE],
                         !.mode = 0]
    IN  push_response_stat(s2, SecondInt2)

\* The switch of execute_command.
dispatch_command(s, cmd) ==
    CASE cmd = 1 -> CmdGetstat(s)
      [] cmd = 2 -> CmdSetloc(s)
      [] cmd = 13 -> CmdSetfilter(s)
      [] cmd \in {3, 17} -> CmdPlay(s)
      [] cmd \in {6, 27} -> CmdReadN(s)
      [] cmd = 7 -> CmdMotorOn(s)
      [] cmd = 8 -> CmdStop(s)
      [] cmd = 9 -> CmdPause(s)
      [] cmd = 14 -> CmdSetmode(s)
      [] cmd \in {11, 12} -> CmdMute(s)
      [] cmd = 15 -> CmdGetparam(s)
      [] cmd = 19 -> CmdGetTN(s)
      [] cmd = 20 -> CmdGetTD(s)
      [] cmd = 21 -> CmdSeekL(s)
      [] cmd = 25 -> CmdTest(s)
      [] cmd = 26 -> CmdGetID(s)
      [] cmd = 10 -> CmdInit(s)
      [] OTHER -> command_error(s)

\* command_begin leaving the pending interrupt codes in irq_fifo.
command_begin_keeps_irq(s) == [s EXCEPT !.resp_fifo = <<>>]

\* The statements of execute_command before the switch.
command_begin(s) == [s EXCEPT !.irq_fifo = <<>>, !.resp_fifo = <<>>]

\* The statements of execute_command after the switch.
command_end(s) ==
    [s EXCEPT !.param_fifo = <<>>,
              !.reg_status.transmit_busy = TRUE,
              !.reg_status.param_fifo_empty = TRUE,
              !.reg_status.param_fifo_write_ready = TRUE,
              !.reg_status.adpcm_fifo_empty = FALSE]

execute_command(s, cmd) ==
    LET s1 == dispatch_command(command_begin(s), cmd)
    IN  IF s1.failed THEN s1 ELSE command_end(s1)

-----------------------------------------------------------------------------
(* The data buffer                                                         *)

is_data_buf_empty(s) ==
    \/ s.data_buf = {}
    \/ s.data_buffer_index >= sector_size(s.mode)

\* read_byte_value skipping sync and header in both sector sizes.
read_byte_value_skips_header(s) ==
    IF is_data_buf_empty(s) THEN 0
    ELSE LET lba == CHOOSE l \in s.data_buf : TRUE
         IN  SectorByte(lba, 24 + s.data_buffer_index)

\* The byte read_byte returns.
read_byte_value(s) ==
    IF is_data_buf_empty(s) THEN 0
    ELSE LET data_offset == IF sector_size(s.mode) = SECTOR_SIZE_DATA_ONLY THEN 24 ELSE 12
             lba == CHOOSE l \in s.data_buf : TRUE
         IN  SectorByte(lba, data_offset + s.data_buffer_index)

\* The drive after read_byte.
read_byte(s) ==
    IF is_data_buf_empty(s) THEN s
    ELSE LET s1 == [s EXCEPT !.data_buffer_index = @ + 1]
         IN  IF is_data_buf_empty(s1)
             THEN [s1 EXCEPT !.reg_status.data_fifo_not_empty = FALSE]
             ELSE s1

-----------------------------------------------------------------------------
(* The entry points                                                        *)

\* The value read_reg returns.
read_reg_value(s, reg) ==
    LET reg_index == s.reg_status.index
    IN  CASE reg = 0 -> StatusByte(s.reg_status)
          [] reg = 1 -> IF s.resp_fifo # <<>> THEN Head(s.resp_fifo) ELSE 0
          [] reg = 2 -> read_byte_value(s)
          [] reg = 3 /\ reg_index \in {0, 2} -> s.reg_int_enable
          [] reg = 3 /\ reg_index \in {1, 3} ->
                224 + (IF s.irq_fifo # <<>> THEN BitAnd(Head(s.irq_fifo), 7) ELSE 0)
          [] OTHER -> 0

\* read_reg leaving response_fifo_not_empty as it is.
read_reg_keeps_flag(s, reg) ==
    CASE reg = 1 /\ s.resp_fifo # <<>> -> [s EXCEPT !.resp_fifo = Tail(@)]
      [] reg = 2 -> read_byte(s)
      [] OTHER -> s

\* The drive after read_reg.
read_reg(s, reg) ==
    CASE reg = 1 /\ s.resp_fifo # <<>> ->
            [s EXCEPT !.resp_fifo = Tail(@),
                      !.reg_status.response_fifo_not_empty =
                          IF Tail(s.resp_fifo) = <<>> THEN FALSE ELSE @]
      [] reg = 2 -> read_byte(s)
      [] OTHER -> s

\* write_param computing param_fifo_write_ready from the size before the push.
write_param_stale_ready(s, val) ==
    IF ~(Len(s.param_fifo) < MAX_FIFO_SIZE) THEN Fail(s)
    ELSE [s EXCEPT !.param_fifo = Append(@, val),
                   !.reg_status.param_fifo_empty = FALSE,
                   !.reg_status.param_fifo_write_ready =
                       (Len(s.param_fifo) < MAX_FIFO_SIZE)]

\* write_reg, Parameter FIFO
write_param(s, val) ==
    IF ~(Len(s.param_fifo) < MAX_FIFO_SIZE) THEN Fail(s)
    ELSE [s EXCEPT !.param_fifo = Append(@, val),
                   !.reg_status.param_fifo_empty = FALSE,
                   !.reg_status.param_fifo_write_ready =
                       (Len(s.param_fifo) + 1 < MAX_FIFO_SIZE)]

\* write_reg, Request Register.  The sector moves from read_buf to data_buf:
\* the vector moved from is left empty.
write_request(s, val) ==
    IF Bit(val, 7) = 1
    THEN IF is_data_buf_empty(s)
         THEN [s EXCEPT !.data_buf = s.read_buf,
                        !.read_buf = {},
                        !.data_buffer_index = 0,
                        !.reg_status.data_fifo_not_empty = TRUE]
         ELSE s
    ELSE [s EXCEPT !.data_buf = {},
                   !.data_buffer_index = 0,
                   !.reg_status.data_fifo_not_empty = FALSE]

\* write_int_flag acknowledging every pending code at once.
write_int_flag_acks_all(s, val) ==
    LET s1 == IF Bit(val, 6) = 1
              THEN [s EXCEPT !.param_fifo = <<>>,
                             !.reg_status.param_fifo_empty = TRUE,
                             !.reg_status.param_fifo_write_ready = TRUE]
              ELSE s
    IN  [s1 EXCEPT !.irq_fifo = <<>>]

\* write_reg, Interrupt Flag Register
write_int_flag(s, val) ==
    LET s1 == IF Bit(val, 6) = 1
              THEN [s EXCEPT !.param_fifo = <<>>,
                             !.reg_status.param_fifo_empty = TRUE,
                             !.reg_status.param_fifo_write_ready = TRUE]
              ELSE s
    IN  IF s1.irq_fifo # <<>> THEN [s1 EXCEPT !.irq_fifo = Tail(@)] ELSE s1

\* The drive after write_reg.
write_reg(s, reg, val) ==
    LET reg_index == s.reg_status.index
    IN  CASE reg = 0 -> [s EXCEPT !.reg_status.index = val % 4]
          [] reg = 1 /\ reg_index = 0 -> execute_command(s, val)
          [] reg = 2 /\ reg_index = 0 -> write_param(s, val)
          [] reg = 2 /\ reg_index = 1 -> [s EXCEPT !.reg_int_enable = val]
          [] reg = 3 /\ reg_index = 0 -> write_request(s, val)
          [] reg = 3 /\ reg_index = 1 -> write_int_flag(s, val)
          [] OTHER -> s

\* The first part of step: transmit_busy and the interrupt.
step_interrupt(s) ==
    [s EXCEPT !.reg_status.transmit_busy = FALSE,
              !.triggered =
                  IF /\ s.irq_fifo # <<>>
                     /\ BitAnd(BitAnd(Head(s.irq_fifo), 7),
                               BitAnd(s.reg_int_enable, 7)) # 0
                  THEN 1 ELSE 0]

\* step_sector delivering every readable sector to the Reading drive, of
\* whatever kind.
step_sector_any_kind(s, sector_type) ==
    IF ~(s.stat_code.reading \/ s.stat_code.playing) THEN s
    ELSE IF s.steps_until_read_sect - 1 # 0
    THEN [s EXCEPT !.steps_until_read_sect = @ - 1]
    ELSE LET s1 == [s EXCEPT !.steps_until_read_sect = READ_SECTOR_DELAY_STEPS,
                             !.read_buf = {s.read_sector},
                             !.read_sector = @ + 1]
         IN  IF sector_type = "Invalid" THEN s1
             ELSE IF s1.stat_code.playing /\ sector_type = "Audio" THEN s1
             ELSE IF s1.stat_code.reading
             THEN push_response(s1, SecondInt1, <<StatByte(s1.stat_code)>>)
             ELSE s1

\* The second part of step, with the kind the disc reports for the sector:
\* the delay counter and the sector fetch.  The counter is at least 1 at
\* entry (it starts at READ_SECTOR_DELAY_STEPS and is reloaded when it reaches
\* 0), so the decrement never wraps.
step_sector(s, sector_type) ==
    IF ~(s.stat_code.reading \/ s.stat_code.playing) THEN s
    ELSE IF s.steps_until_read_sect - 1 # 0
    THEN [s EXCEPT !.steps_until_read_sect = @ - 1]
    ELSE LET s1 == [s EXCEPT !.steps_until_read_sect = READ_SECTOR_DELAY_STEPS,
                             !.read_buf = {s.read_sector},
                             !.read_sector = @ + 1]
         IN  IF sector_type = "Invalid" THEN s1
             ELSE IF s1.stat_code.playing /\ sector_type = "Audio" THEN s1
             ELSE IF s1.stat_code.reading /\ sector_type = "Data"
             THEN push_response(s1, SecondInt1, <<StatByte(s1.stat_code)>>)
             ELSE s1

\* step testing irq_fifo after the sector fetch.
step_raises_after_fetch(s, sector_type) ==
    step_interrupt(step_sector(s, sector_type))

step(s, sector_type) == step_sector(step_interrupt(s), sector_type)

\* insert_disk_file, with the image the file holds.
insert_disk_file(s, image) ==
    [s EXCEPT !.disk = image, !.stat_code.shell_open = FALSE]

-----------------------------------------------------------------------------
(* History                                                                 *)

\* read_age = [steps |-> k, ctr |-> c]: the last command was ReadN or ReadS,
\* issued when steps_until_read_sect was c, and exactly k step calls and
\* nothing else followed it (k <= READ_SECTOR_DELAY_STEPS).  NoRead otherwise.
NoRead == [steps |-> -1, ctr |-> 0]

ReadAgeAfterWrite(s, reg, val) ==
    IF reg = 1 /\ s.reg_status.index = 0 /\ val \in {6, 27}
    THEN [steps |-> 0, ctr |-> s.steps_until_read_sect]
    ELSE NoRead

ReadAgeAfterStep ==
    IF read_age.steps >= 0 /\ read_age.steps < READ_SECTOR_DELAY_STEPS
    THEN [read_age EXCEPT !.steps = @ + 1]
    ELSE NoRead

\* data_age = [on |-> TRUE, lba |-> l, reads |-> k, drained |-> d]: the guest
\* wrote "want data" while read_buf held the fetched sector l and data_buf
\* was drained (d) or not, and exactly k reads of the data FIFO and nothing
\* else followed; k stops counting MaxDataReads past the sector size.
\* NoWant otherwise.
NoWant == [on |-> FALSE, lba |-> 0, reads |-> 0, drained |-> FALSE]

DataAgeAfterWrite(s, reg, val) ==
    IF reg = 3 /\ s.reg_status.index = 0 /\ Bit(val, 7) = 1 /\ s.read_buf # {}
    THEN [on |-> TRUE, lba |-> CHOOSE l \in s.read_buf : TRUE, reads |-> 0,
          drained |-> is_data_buf_empty(s)]
    ELSE NoWant

DataAgeAfterRead(s, reg) ==
    IF reg = 2 /\ data_age.on
    THEN IF data_age.reads < sector_size(s.mode) + MaxDataReads
         THEN [data_age EXCEPT !.reads = @ + 1]
         ELSE data_age
    ELSE NoWant

-----------------------------------------------------------------------------
(* Actions: one per entry point.  An environment E gives the values the    *)
(* guest and the host draw their inputs from.                              *)

\* The drive at the entry of a call: no interrupt raised yet by this call.
Entry == [Drive EXCEPT !.triggered = 0]

\* The values the guest writes to register (reg, index).
WriteValues(E, reg, reg_index) ==
    CASE reg = 0 -> E.indexes
      [] reg = 1 /\ reg_index = 0 -> E.commands
      [] reg = 2 /\ reg_index = 0 ->
            IF Len(param_fifo) < E.free_params THEN E.params
            ELSE IF Len(param_fifo) < E.max_params THEN {0}
            ELSE {}
      [] reg = 2 /\ reg_index = 1 -> E.int_enables
      [] reg = 3 /\ reg_index = 0 -> E.requests
      [] reg = 3 /\ reg_index = 1 -> E.acks
      [] OTHER -> {0}

WriteReg(reg, val) ==
    /\ ~failed
    /\ Install(write_reg(Entry, reg, val))
    /\ read_age' = ReadAgeAfterWrite(Drive, reg, val)
    /\ data_age' = DataAgeAfterWrite(Drive, reg, val)

\* Bytes of a sector are read one by one up to the explored cursor.
ReadReg(E, reg) ==
    /\ ~failed
    /\ reg = 2 => (is_data_buf_empty(Drive) \/ data_buffer_index < E.max_data_reads)
    /\ Install(read_reg(Entry, reg))
    /\ read_age' = NoRead
    /\ data_age' = DataAgeAfterRead(Drive, reg)

\* step() is not taken when it would fetch past the explored sectors or make
\* irq_fifo longer than the explored length.
Step(E, sector_type) ==
    /\ ~failed
    /\ LET s == step(Entry, sector_type)
       IN  /\ \/ s.read_sector = read_sector
              \/ /\ read_sector - seek_sector \in 0..(E.max_fetch - 1)
                 /\ Len(s.irq_fifo) <= E.max_irq
           /\ Install(s)
    /\ read_age' = ReadAgeAfterStep
    /\ data_age' = NoWant

InsertDisk(image) ==
    /\ ~failed
    /\ Install(insert_disk_file(Entry, image))
    /\ read_age' = NoRead
    /\ data_age' = NoWant

Init ==
    /\ reg_status = InitDrive.reg_status
    /\ reg_int_enable = InitDrive.reg_int_enable
    /\ stat_code = InitDrive.stat_code
    /\ mode = InitDrive.mode
    /\ param_fifo = InitDrive.param_fifo
    /\ resp_fifo = InitDrive.resp_fifo
    /\ irq_fifo = InitDrive.irq_fifo
    /\ seek_sector = InitDrive.seek_sector
    /\ read_sector = InitDrive.read_sector
    /\ steps_until_read_sect = InitDrive.steps_until_read_sect
    /\ read_buf = InitDrive.read_buf
    /\ data_buf = InitDrive.data_buf
    /\ data_buffer_index = InitDrive.data_buffer_index
    /\ disk = InitDrive.disk
    /\ failed = InitDrive.failed
    /\ triggered = InitDrive.triggered
    /\ read_age = NoRead
    /\ data_age = NoWant

NextIn(E) ==
    \/ \E reg \in 0..3 :
          \E val \in WriteValues(E, reg, reg_status.index) : WriteReg(reg, val)
    \/ \E reg \in E.read_regs : ReadReg(E, reg)
    \/ \E sector_type \in disk_read_kinds(disk) : Step(E, sector_type)
    \/ \E image \in E.images : InsertDisk(image)

-----------------------------------------------------------------------------
(* Environments and specifications                                         *)

\* The commands of the table of execute_command, and one outside it.
Commands ==
    {1, 2, 3, 6, 7, 8, 9, 10, 11, 12, 13, 14, 15, 17, 19, 20, 21, 25, 26, 27, 255}

\* Every command, with and without a disc; the guest reads the responses and
\* acknowledges the interrupts.
EnvCommands ==
    [indexes |-> 0..1, commands |-> Commands, params |-> {}, free_params |-> 0,
     max_params |-> 0, int_enables |-> {}, requests |-> {}, acks |-> {7, 64},
     read_regs |-> 0..3, images |-> {"blank", "data"}, max_fetch |-> MaxFetch,
     max_irq |-> MaxIrqLen, max_data_reads |-> MaxDataReads]

\* Long queues: sectors are delivered and parameters written until the
\* queues are full and past that.
EnvFifo ==
    [indexes |-> {0}, commands |-> {1, 6}, params |-> {0}, free_params |-> 0,
     max_params |-> MAX_FIFO_SIZE + 1, int_enables |-> {}, requests |-> {},
     acks |-> {}, read_regs |-> 0..3, images |-> {"data"},
     max_fetch |-> MaxIrqLen, max_irq |-> MaxIrqLen,
     max_data_reads |-> MaxDataReads]

\* Parameters: the commands that take them, and the reset of the parameter
\* FIFO.
EnvParam ==
    [indexes |-> 0..1, commands |-> {1, 2, 13, 14, 20, 25},
     params |-> {0, 32}, free_params |-> MaxFreeParams,
     max_params |-> MAX_FIFO_SIZE + 1, int_enables |-> {}, requests |-> {},
     acks |-> {64}, read_regs |-> {0, 3}, images |-> {"data"},
     max_fetch |-> MaxFetch, max_irq |-> MaxIrqLen,
     max_data_reads |-> MaxDataReads]

\* Interrupts: the four response codes under three masks.
EnvIrq ==
    [indexes |-> 0..3, commands |-> {1, 6, 7, 255}, params |-> {},
     free_params |-> 0, max_params |-> 0, int_enables |-> {0, 4, 7},
     requests |-> {}, acks |-> {7}, read_regs |-> 0..3, images |-> {"data"},
     max_fetch |-> MaxFetch + 1, max_irq |-> MaxIrqLen,
     max_data_reads |-> MaxDataReads]

\* Reading: the commands that change the read state, on a disc of Data
\* sectors and on a mixed one.
EnvRead ==
    [indexes |-> {0}, commands |-> {3, 6, 8, 9, 10, 21, 27}, params |-> {},
     free_params |-> 0, max_params |-> 0, int_enables |-> {}, requests |-> {},
     acks |-> {}, read_regs |-> 0..3, images |-> {"data", "mixed"},
     max_fetch |-> MaxFetch + 2, max_irq |-> MaxIrqLen,
     max_data_reads |-> MaxDataReads]

\* The data buffer: requests, data reads and the commands that change the
\* sector size.
EnvData ==
    [indexes |-> {0}, commands |-> {6, 10, 14}, params |-> {0, 32},
     free_params |-> MaxFreeParams, max_params |-> MaxFreeParams,
     int_enables |-> {}, requests |-> {0, 128}, acks |-> {},
     read_regs |-> 0..3, images |-> {"data"}, max_fetch |-> MaxFetch + 1,
     max_irq |-> MaxIrqLen, max_data_reads |-> MaxDataReads]

\* Block transfers: a sector is fetched, requested and read to its end and
\* past it, in both sector sizes.
EnvBlock ==
    [indexes |-> {0}, commands |-> {6, 14}, params |-> {32},
     free_params |-> 1, max_params |-> 1, int_enables |-> {},
     requests |-> {128}, acks |-> {}, read_regs |-> {2}, images |-> {"data"},
     max_fetch |-> 1, max_irq |-> 2,
     max_data_reads |-> SECTOR_SIZE_WHOLE]

\* Acknowledges: commands of one and of two responses, parameters written
\* and not consumed, acknowledges with and without the reset of the
\* parameter FIFO, under every index.
EnvAck ==
    [indexes |-> 0..3, commands |-> {1, 6, 7, 26}, params |-> {0},
     free_params |-> 0, max_params |-> 2, int_enables |-> {7},
     requests |-> {}, acks |-> {7, 64}, read_regs |-> {1, 3},
     images |-> {"data"}, max_fetch |-> MaxFetch, max_irq |-> MaxIrqLen,
     max_data_reads |-> MaxDataReads]

\* Stepping: a disc of Data, Audio and unreadable sectors under the four
\* read states, stepped until resp_fifo is full and past that.
EnvStep ==
    [indexes |-> {0}, commands |-> {3, 6, 9, 21}, params |-> {},
     free_params |-> 0, max_params |-> 0, int_enables |-> {},
     requests |-> {}, acks |-> {}, read_regs |-> {0}, images |-> {"mixed"},
     max_fetch |-> MaxIrqLen, max_irq |-> MaxIrqLen,
     max_data_reads |-> MaxDataReads]

\* Seeking: Setloc and the commands that move the read position, on a disc
\* of Data, Audio and unreadable sectors.
EnvSeek ==
    [indexes |-> {0}, commands |-> {2, 6, 9, 21},
     params |-> {0, 18}, free_params |-> 1, max_params |-> 3,
     int_enables |-> {}, requests |-> {}, acks |-> {}, read_regs |-> {0},
     images |-> {"mixed"}, max_fetch |-> 2, max_irq |-> MaxIrqLen,
     max_data_reads |-> MaxDataReads]

\* State changes: the commands that answer twice around a state change,
\* with ReadN to start reading and Setmode to leave mode 0.
EnvInit ==
    [indexes |-> {0}, commands |-> {6, 9, 10, 14, 21}, params |-> {32},
     free_params |-> 1, max_params |-> 1, int_enables |-> {}, requests |-> {},
     acks |-> {}, read_regs |-> {0, 1}, images |-> {"blank", "data"},
     max_fetch |-> 1, max_irq |-> MaxIrqLen, max_data_reads |-> MaxDataReads]

\* Opcodes that are not a case of the switch of execute_command.
UnknownCommands == {0, 4, 16, 28, 255}

\* Contracts and errors: every command and some unknown opcodes, issued with
\* up to three parameters; the first is 0x0A or 0x10 (the same number as
\* BCD, bit 4 clear or set).  No sector is fetched.
EnvContract ==
    [indexes |-> {0}, commands |-> Commands \cup UnknownCommands,
     params |-> {10, 16}, free_params |-> 1,
     max_params |-> 3, int_enables |-> {}, requests |-> {},
     acks |-> {}, read_regs |-> {0}, images |-> {"data"},
     max_fetch |-> 0, max_irq |-> MaxIrqLen,
     max_data_reads |-> MaxDataReads]

\* Commands issued on a parameter FIFO of more than three bytes.
LongListCommands == {1, 2, 3}

\* The guest is past the first bytes of a sector: it reads the sector to its
\* end before it does anything else.
InBlockTransfer ==
    /\ ~is_data_buf_empty(Drive)
    /\ data_buffer_index > 1

Next == NextIn(EnvCommands)

NextFifo == NextIn(EnvFifo)

NextParam == NextIn(EnvParam)

NextIrq == NextIn(EnvIrq)

NextRead == NextIn(EnvRead)

NextData == NextIn(EnvData)

\* Before its first command the guest may also go on writing parameters,
\* until the FIFO is full and past that, and issue a command on the long
\* list.
NextContract ==
    \/ Len(param_fifo) <= 3 /\ NextIn(EnvContract)
    \/ Len(param_fifo) >= 3 /\ irq_fifo = <<>> /\ WriteReg(2, 0)
    \/ Len(param_fifo) > 3 /\ \E cmd \in LongListCommands : WriteReg(1, cmd)

NextAck == NextIn(EnvAck)

NextStep == NextIn(EnvStep)

NextSeek == NextIn(EnvSeek)

NextInit == NextIn(EnvInit)

NextBlock ==
    \/ ~InBlockTransfer /\ NextIn(EnvBlock)
    \/ InBlockTransfer /\ ReadReg(EnvBlock, 2)

Spec == Init /\ [][Next]_vars

SpecFifo == Init /\ [][NextFifo]_vars

SpecParam == Init /\ [][NextParam]_vars

SpecIrq == Init /\ [][NextIrq]_vars

SpecRead == Init /\ [][NextRead]_vars

SpecData == Init /\ [][NextData]_vars

SpecContract == Init /\ [][NextContract]_vars

SpecAck == Init /\ [][NextAck]_vars

SpecStep == Init /\ [][NextStep]_vars

SpecSeek == Init /\ [][NextSeek]_vars

SpecInit == Init /\ [][NextInit]_vars

SpecBlock == Init /\ [][NextBlock]_vars

-----------------------------------------------------------------------------
(* Properties                                                              *)

CountOf(fifo, x) == Cardinality({i \in DOMAIN fifo : fifo[i] = x})

\* C1: in every reachable state param_fifo and resp_fifo hold at most 16
\* bytes each, also after a parameter write to a full param_fifo (which
\* fails its contract) and after INT1 responses that nobody reads.
C1_ParamAndRespBounded ==
    /\ Len(param_fifo) <= MAX_FIFO_SIZE
    /\ Len(resp_fifo) <= MAX_FIFO_SIZE

\* A parameter was written to a full param_fifo, and a response byte was
\* dropped at a full resp_fifo (irq_fifo got its code).
C1_Witness ==
    /\ failed
    /\ Len(param_fifo) = MAX_FIFO_SIZE
    /\ Len(resp_fifo) = MAX_FIFO_SIZE
    /\ Len(irq_fifo) > MAX_FIFO_SIZE

\* C2: irq_fifo holds at most 16 pending interrupt codes in every reachable
\* state.
C2_IrqFifoBounded == Len(irq_fifo) <= MAX_FIFO_SIZE

\* C3: after every return of an entry point, data_fifo_not_empty is set
\* exactly when data_buf is non-empty and data_buffer_index is below the
\* sector size of the current mode.
C3_DataFifoNotEmptyExact ==
    ~failed => (reg_status.data_fifo_not_empty <=> ~is_data_buf_empty(Drive))

\* The secondary response of GetID with a disc.
GetIdSecondary == <<2, 0, 32, 0>> \o GetIdLicense

\* GetID answered with a disc, and nothing acknowledged or read since.
GetIdUnacked ==
    /\ ~failed
    /\ irq_fifo = <<FirstInt3, SecondInt2>>
    /\ Len(resp_fifo) = 1 + Len(GetIdSecondary)
    /\ SubSeq(resp_fifo, 2, Len(resp_fifo)) = GetIdSecondary

\* C4: GetID with a disc and the shell closed leaves irq_fifo = [3,2]; once
\* the guest acknowledges INT3, resp_fifo = [stat]: the bytes of the
\* secondary response enter resp_fifo only after the primary was
\* acknowledged.
C4_GetIdSecondaryAfterAck ==
    [][/\ (/\ reg_status.index = 0
           /\ ~stat_code.shell_open
           /\ ~disk_is_empty(disk)
           /\ WriteReg(1, 26))
          => irq_fifo' = <<FirstInt3, SecondInt2>>
       /\ (/\ GetIdUnacked
           /\ reg_status.index = 1
           /\ WriteReg(3, 7))
          => (irq_fifo' = <<SecondInt2>> /\ resp_fifo' = <<StatByte(stat_code)>>)
      ]_vars

\* The condition of step() for raising the interrupt, at the entry of the
\* call.
UnmaskedIrqPending ==
    /\ irq_fifo # <<>>
    /\ BitAnd(BitAnd(Head(irq_fifo), 7), BitAnd(reg_int_enable, 7)) # 0

\* C5: a step() call raises the CDROM interrupt exactly once when, at its
\* entry, irq_fifo is non-empty and the front code has a bit of the
\* interrupt-enable mask, and never otherwise; a code the same call
\* enqueues is not raised by it.
C5_StepRaisesOnceIffUnmasked ==
    [][(\E sector_type \in {"Data", "Audio", "Invalid"} : Step(EnvIrq, sector_type))
          => triggered' = (IF UnmaskedIrqPending THEN 1 ELSE 0)]_vars

\* step() has raised the interrupt for a pending INT3 after the mask was
\* written to 7.
C5_Witness ==
    /\ triggered = 1
    /\ reg_int_enable = 7
    /\ irq_fifo = <<FirstInt3>>

\* C6: after every return of an entry point, response_fifo_not_empty is set
\* exactly when resp_fifo is non-empty.
C6_ResponseFlagExact ==
    ~failed => (reg_status.response_fifo_not_empty <=> resp_fifo # <<>>)

\* The guest has read a whole response: the flag is clear again while the
\* interrupt is still pending.
C6_Witness ==
    /\ ~failed
    /\ resp_fifo = <<>>
    /\ irq_fifo # <<>>
    /\ ~reg_status.response_fifo_not_empty

\* C7: after every return of an entry point, param_fifo_empty is set exactly
\* when param_fifo is empty, and param_fifo_write_ready exactly when it
\* holds fewer than 16 bytes.
C7_ParamFlagsExact ==
    ~failed =>
        /\ reg_status.param_fifo_empty <=> (param_fifo = <<>>)
        /\ reg_status.param_fifo_write_ready <=> (Len(param_fifo) < MAX_FIFO_SIZE)

\* The sixteenth parameter was written: the FIFO is full and not write-ready.
C7_Witness ==
    /\ ~failed
    /\ Len(param_fifo) = MAX_FIFO_SIZE
    /\ ~reg_status.param_fifo_write_ready
    /\ ~reg_status.param_fifo_empty

\* C8: as long as insert_disk_file was not called, shell_open is set,
\* whatever commands were executed.
C8_ShellOpenUntilInsert == disk = "none" => stat_code.shell_open

\* C9: after ReadN or ReadS on a disc of Data sectors, followed by step()
\* calls only, irq_fifo holds no INT1 during the first
\* READ_SECTOR_DELAY_STEPS-1 calls and exactly one after the
\* READ_SECTOR_DELAY_STEPS-th, in whatever state the command was issued.
C9_FirstSectorAfterFullDelay ==
    (disk = "data" /\ read_age.steps >= 0) =>
        CountOf(irq_fifo, SecondInt1) =
            (IF read_age.steps = READ_SECTOR_DELAY_STEPS THEN 1 ELSE 0)

\* C9 as amended: the first INT1(stat) is enqueued by the c-th step() call,
\* c the value of the delay counter when the command was issued
\* (1 <= c <= READ_SECTOR_DELAY_STEPS), and it is the only one up to the
\* READ_SECTOR_DELAY_STEPS-th call.
C9_FirstSectorWhenCounterExpires ==
    (disk = "data" /\ read_age.steps >= 0) =>
        /\ read_age.ctr \in 1..READ_SECTOR_DELAY_STEPS
        /\ irq_fifo = (IF read_age.steps >= read_age.ctr
                       THEN <<FirstInt3, SecondInt1>> ELSE <<FirstInt3>>)
        /\ resp_fifo = (IF read_age.steps >= read_age.ctr
                        THEN <<StatByte(stat_code), StatByte(stat_code)>>
                        ELSE <<StatByte(stat_code)>>)

\* A read command issued with the counter partly run down has delivered its
\* first sector before the READ_SECTOR_DELAY_STEPS-th step().
C9_Witness ==
    /\ disk = "data"
    /\ read_age.steps >= 0
    /\ read_age.steps < READ_SECTOR_DELAY_STEPS
    /\ CountOf(irq_fifo, SecondInt1) = 1

\* C10: in every reachable state at most one of reading, seeking and
\* playing is set.
C10_AtMostOneReadState ==
    B2N(stat_code.reading) + B2N(stat_code.seeking) + B2N(stat_code.playing) <= 1

\* SeekL was issued while Reading: the first response byte has the reading
\* bit, the drive is Seeking.
C10_Witness ==
    /\ ~failed
    /\ stat_code.seeking
    /\ Len(resp_fifo) = 2
    /\ Bit(resp_fifo[1], 5) = 1

\* The answers the claim C11 gives for the reads that follow a "want data"
\* write: the flag, the byte the next read returns, the cursor.
ServesFetchedSector ==
    LET size == sector_size(mode)
        data_offset == IF size = SECTOR_SIZE_DATA_ONLY THEN 24 ELSE 12
        k == data_age.reads
    IN  IF k < size
        THEN /\ reg_status.data_fifo_not_empty
             /\ read_reg_value(Drive, 2) = SectorByte(data_age.lba, data_offset + k)
        ELSE /\ ~reg_status.data_fifo_not_empty
             /\ read_reg_value(Drive, 2) = 0
             /\ data_buffer_index = size

\* C11: after a "want data" write that follows a sector fetch, the flag is
\* set and the k-th read of the data FIFO returns byte 24+k (sector size
\* 0x800) or 12+k (0x924) of the fetched sector; after sector-size reads the
\* flag is clear and every further read returns 0 and leaves the cursor.
C11_WantDataServesFetchedSector == data_age.on => ServesFetchedSector

\* C11 as amended: the same, for a "want data" write made while the data
\* buffer was drained.
C11_WantDataWhenDrainedServesSector ==
    (data_age.on /\ data_age.drained) => ServesFetchedSector

\* A whole sector of 0x924 bytes was read, and one read more.
C11_Witness ==
    /\ data_age.on
    /\ data_age.drained
    /\ mode = 32
    /\ data_age.reads = SECTOR_SIZE_WHOLE + 1
    /\ data_buffer_index = SECTOR_SIZE_WHOLE

\* The drive is ready for the guest to write `cmd' to the command register.
CommandReady == ~failed /\ reg_status.index = 0

\* The opcodes that execute_command answers with "command error" in this
\* state: those outside the switch, and Test with a subfunction other than
\* 0x20.
ErroneousCommands ==
    UnknownCommands
      \cup (IF param_fifo # <<>> /\ Head(param_fifo) # 32 THEN {25} ELSE {})

\* C12: an opcode outside the command table, or Test with a subfunction
\* other than 0x20, leaves irq_fifo = [5] and resp_fifo = [0x11,0x40]
\* whatever the queues held, and leaves stat_code, mode, seek_sector and
\* read_sector as they were.
C12_CommandErrorAnswer ==
    CommandReady =>
        \A cmd \in ErroneousCommands :
            LET s == write_reg(Entry, 1, cmd)
            IN  /\ ~s.failed
                /\ s.irq_fifo = <<ErrorInt5>>
                /\ s.resp_fifo = <<17, 64>>
                /\ s.stat_code = stat_code
                /\ s.mode = mode
                /\ s.seek_sector = seek_sector
                /\ s.read_sector = read_sector

\* "Command error" was answered while the drive was Reading, after Setloc
\* and Setmode.
C12_Witness ==
    /\ ~failed
    /\ irq_fifo = <<ErrorInt5>>
    /\ resp_fifo = <<17, 64>>
    /\ stat_code.reading
    /\ mode # 0
    /\ seek_sector # 0

\* The fields a command can change besides the queues and the status
\* register are the same in the drive s as in the current state.
SameDriveState(s) ==
    /\ s.stat_code = stat_code
    /\ s.mode = mode
    /\ s.seek_sector = seek_sector
    /\ s.read_sector = read_sector
    /\ s.steps_until_read_sect = steps_until_read_sect
    /\ s.read_buf = read_buf
    /\ s.data_buf = data_buf
    /\ s.data_buffer_index = data_buffer_index
    /\ s.disk = disk
    /\ s.reg_int_enable = reg_int_enable

\* The second response of GetID without a disc.
GetIdNoDisk == <<8, 64, 0, 0, 0, 0, 0, 0>>

\* C13: GetID answers by shell_open and the disc alone: shell open ->
\* INT5(0x11,0x80); shell closed with a disc -> INT3(stat), INT2(...);
\* shell closed with an empty image -> INT3(stat), INT5(08,40,00,...); and
\* it changes no drive state.
C13_GetIdAnswer ==
    CommandReady =>
        LET s == write_reg(Entry, 1, 26)
        IN  /\ ~s.failed
            /\ SameDriveState(s)
            /\ IF stat_code.shell_open
               THEN s.irq_fifo = <<ErrorInt5>> /\ s.resp_fifo = <<17, 128>>
               ELSE IF ~disk_is_empty(disk)
               THEN /\ s.irq_fifo = <<FirstInt3, SecondInt2>>
                    /\ s.resp_fifo = <<StatByte(stat_code)>> \o GetIdSecondary
               ELSE /\ s.irq_fifo = <<FirstInt3, ErrorInt5>>
                    /\ s.resp_fifo = <<StatByte(stat_code)>> \o GetIdNoDisk

\* GetID was answered for an empty image in a closed shell.
C13_Witness ==
    /\ ~failed
    /\ disk = "blank"
    /\ irq_fifo = <<FirstInt3, ErrorInt5>>
    /\ resp_fifo = <<StatByte(stat_code)>> \o GetIdNoDisk

\* Values the guest may write to the interrupt flag register.
AckValues == {0, 7, 31, 64, 71, 255}

\* C14: a read of the interrupt flag register (slot 3, index 1 or 3) returns
\* 0xE0 | (front of irq_fifo & 7), 0xE0 when irq_fifo is empty, and changes
\* nothing; a write to it (slot 3, index 1) removes exactly the front code
\* (nothing when irq_fifo is empty), clears param_fifo iff the value has
\* bit 0x40, and leaves resp_fifo, int_enable and the drive state alone.
C14_OnlyFrontVisibleAckPopsFront ==
    /\ (~failed /\ reg_status.index \in {1, 3}) =>
          /\ read_reg_value(Entry, 3) =
                 224 + (IF irq_fifo = <<>> THEN 0 ELSE Head(irq_fifo) % 8)
          /\ read_reg(Entry, 3) = Entry
    /\ (~failed /\ reg_status.index = 1) =>
          \A val \in AckValues :
              LET s == write_reg(Entry, 3, val)
              IN  /\ ~s.failed
                  /\ s.irq_fifo = IF irq_fifo = <<>> THEN <<>> ELSE Tail(irq_fifo)
                  /\ s.param_fifo = IF Bit(val, 6) = 1 THEN <<>> ELSE param_fifo
                  /\ s.resp_fifo = resp_fifo
                  /\ SameDriveState(s)

\* The primary response of a command of two responses was acknowledged with
\* a value without bit 0x40: the secondary code is at the front, the
\* parameters written since and the unread response bytes are still there.
C14_Witness ==
    /\ ~failed
    /\ reg_status.index = 1
    /\ irq_fifo = <<SecondInt2>>
    /\ Len(resp_fifo) = 2
    /\ Len(param_fifo) = 2

\* The current drive with nothing pending: no interrupt code, no response
\* byte.
NothingPending ==
    [Entry EXCEPT !.irq_fifo = <<>>, !.resp_fifo = <<>>,
                  !.reg_status.response_fifo_not_empty = FALSE]

\* C15: after an execute_command that completes, param_fifo is empty,
\* irq_fifo holds that command's one or two codes (3 or 5 first, the primary
\* before the secondary) and resp_fifo that command's bytes: the same as
\* when nothing was pending before the command.
C15_CommandDiscardsPending ==
    CommandReady =>
        \A cmd \in Commands \cup UnknownCommands :
            \A s \in {write_reg(Entry, 1, cmd)},
               alone \in {write_reg(NothingPending, 1, cmd)} :
                ~s.failed =>
                    /\ s.param_fifo = <<>>
                    /\ s.irq_fifo = alone.irq_fifo
                    /\ s.resp_fifo = alone.resp_fifo
                    /\ s.resp_fifo # <<>>
                    /\ \/ s.irq_fifo \in {<<FirstInt3>>, <<ErrorInt5>>}
                       \/ /\ Len(s.irq_fifo) = 2
                          /\ s.irq_fifo[1] = FirstInt3
                          /\ s.irq_fifo[2] \in {SecondInt2, ErrorInt5}

\* Pause was answered after a sector was delivered to the Reading drive:
\* the first byte has the reading bit, the INT1 of the delivery is not in
\* irq_fifo.
C15_Witness ==
    /\ ~failed
    /\ disk = "data"
    /\ read_sector > seek_sector
    /\ reg_status.transmit_busy
    /\ irq_fifo = <<FirstInt3, SecondInt2>>
    /\ Len(resp_fifo) = 2
    /\ Bit(resp_fifo[1], 5) = 1
    /\ Bit(resp_fifo[2], 5) = 0

\* step() called now, the disc reporting `sector_type', delivers a sector:
\* the drive is Reading, the delay counter reaches zero in the call and the
\* sector is a Data sector.
Delivers(sector_type) ==
    /\ stat_code.reading
    /\ steps_until_read_sect = 1
    /\ sector_type = "Data"

\* What C16 says of step() besides the stat byte of a delivery: codes and
\* bytes are enqueued by a delivery only, one INT1 then; a Stopped or
\* Seeking drive keeps read_sector and the delay counter.
StepEnqueuesOnDeliveryOnly(s, sector_type) ==
    /\ ~s.failed
    /\ s.irq_fifo = IF Delivers(sector_type)
                     THEN Append(irq_fifo, SecondInt1) ELSE irq_fifo
    /\ ~Delivers(sector_type) => s.resp_fifo = resp_fifo
    /\ ~(stat_code.reading \/ stat_code.playing) =>
           /\ s.read_sector = read_sector
           /\ s.steps_until_read_sect = steps_until_read_sect

\* C16: step() enqueues a response only when the drive is Reading, the
\* delay counter reaches zero in that call and the sector is Data; it then
\* appends one INT1 to irq_fifo and the stat byte to resp_fifo.  Stopped or
\* Seeking, it changes neither queue, read_sector nor the counter; a fetch
\* while Playing, or of an Audio or Invalid sector, changes neither queue.
C16_StepAppendsCodeAndStat ==
    ~failed =>
        \A sector_type \in disk_read_kinds(disk) :
            LET s == step(Entry, sector_type)
            IN  /\ StepEnqueuesOnDeliveryOnly(s, sector_type)
                /\ Delivers(sector_type) =>
                       s.resp_fifo = Append(resp_fifo, StatByte(stat_code))

\* C16 as amended: the stat byte is appended when resp_fifo holds fewer
\* than 16 bytes; a delivery to a full resp_fifo appends the code alone.
C16_StepAppendsStatUnlessFull ==
    ~failed =>
        \A sector_type \in disk_read_kinds(disk) :
            LET s == step(Entry, sector_type)
            IN  /\ StepEnqueuesOnDeliveryOnly(s, sector_type)
                /\ Delivers(sector_type) =>
                       s.resp_fifo =
                           IF Len(resp_fifo) < MAX_FIFO_SIZE
                           THEN Append(resp_fifo, StatByte(stat_code))
                           ELSE resp_fifo

\* A sector was delivered to a full resp_fifo on a disc of mixed sectors,
\* some of them skipped.
C16_Witness ==
    /\ ~failed
    /\ disk = "mixed"
    /\ stat_code.reading
    /\ Len(resp_fifo) = MAX_FIFO_SIZE
    /\ Len(irq_fifo) = MAX_FIFO_SIZE + 1
    /\ read_sector - seek_sector > MAX_FIFO_SIZE
    /\ steps_until_read_sect = READ_SECTOR_DELAY_STEPS

\* Parameter lists (mm, ss, ff) for Setloc: BCD bytes.
SetlocParams ==
    {<<0, 0, 0>>, <<0, 2, 0>>, <<0, 0, 16>>, <<18, 52, 116>>,
     <<115, 89, 116>>}

\* The drive after the guest wrote the bytes of `params' to the parameter
\* FIFO.
RECURSIVE write_params(_, _)
write_params(s, params) ==
    IF params = <<>> THEN s
    ELSE write_params(write_reg(s, 2, Head(params)), Tail(params))

\* The value of a BCD byte.
BcdValue(x) == 10 * (x \div 16) + (x % 16)

\* The commands that set read_sector to seek_sector: Play and its alias
\* 0x11, ReadN, SeekL, ReadS.
SeekingCommands == {3, 17, 6, 21, 27}

\* C17: Setloc(mm,ss,ff) stores seek_sector = (mm*60+ss)*75+ff-150 of the
\* BCD-decoded parameters and changes neither read_sector nor the read
\* state; ReadN, ReadS, Play and SeekL set read_sector to seek_sector; a
\* sector fetch by step() reads the sector at read_sector and advances
\* read_sector by 1, whatever kind the sector is; nothing else changes
\* read_sector.
C17_ReadPositionFollowsSeek ==
    /\ (CommandReady /\ param_fifo = <<>>) =>
          \A params \in SetlocParams :
              LET s == write_reg(write_params(Entry, params), 1, 2)
              IN  /\ ~s.failed
                  /\ s.seek_sector =
                         (BcdValue(params[1]) * 60 + BcdValue(params[2])) * 75
                             + BcdValue(params[3]) - 150
                  /\ s.read_sector = read_sector
                  /\ s.stat_code = stat_code
    /\ CommandReady =>
          \A cmd \in Commands \cup UnknownCommands :
              LET s == write_reg(Entry, 1, cmd)
              IN  ~s.failed =>
                     /\ s.read_sector =
                            IF cmd \in SeekingCommands THEN seek_sector
                            ELSE read_sector
                     /\ cmd # 2 => s.seek_sector = seek_sector
    /\ ~failed =>
          /\ \A sector_type \in disk_read_kinds(disk) :
                 LET s == step(Entry, sector_type)
                 IN  IF (stat_code.reading \/ stat_code.playing)
                          /\ steps_until_read_sect = 1
                     THEN /\ s.read_buf = {read_sector}
                          /\ s.read_sector = read_sector + 1
                          /\ s.seek_sector = seek_sector
                     ELSE /\ s.read_buf = read_buf
                          /\ s.read_sector = read_sector
                          /\ s.seek_sector = seek_sector
          /\ \A reg \in 0..3 :
                 /\ read_reg(Entry, reg).read_sector = read_sector
                 /\ read_reg(Entry, reg).seek_sector = seek_sector
                 /\ (reg # 1 \/ reg_status.index # 0) =>
                        \A val \in {0, 1, 7, 64, 128, 255} :
                            /\ write_reg(Entry, reg, val).read_sector = read_sector
                            /\ write_reg(Entry, reg, val).seek_sector = seek_sector

\* After Setloc(12:00:00) and a read command, two sectors were fetched: the
\* second is the one after the seek position.
C17_Witness ==
    /\ ~failed
    /\ seek_sector = 12 * 60 * 75 - 150
    /\ read_sector = seek_sector + 2
    /\ read_buf = {seek_sector + 1}

\* The read-state bits of a stat code.
ReadStateBits(sc) == <<sc.reading, sc.seeking, sc.playing>>

\* C18: Pause, Init and SeekL answer INT3 with the stat byte from before
\* their state change and INT2 with the stat byte after it. Pause while
\* Reading: first byte with the reading bit, second without. Init: second
\* byte with spindle_motor_on only, and mode = 0. SeekL: second byte with
\* the seeking bit, and the drive stays Seeking: step(), register reads,
\* writes other than a command and a disc insertion keep the read state.
C18_TwoBytesAroundStateChange ==
    /\ CommandReady =>
          /\ \A cmd \in {9, 10, 21} :
                 LET s == write_reg(Entry, 1, cmd)
                 IN  /\ ~s.failed
                     /\ s.irq_fifo = <<FirstInt3, SecondInt2>>
                     /\ s.resp_fifo =
                            <<StatByte(stat_code), StatByte(s.stat_code)>>
          /\ LET s == write_reg(Entry, 1, 9)
             IN  /\ s.stat_code = set_state(stat_code, "Stopped")
                 /\ stat_code.reading =>
                        /\ Bit(s.resp_fifo[1], 5) = 1
                        /\ Bit(s.resp_fifo[2], 5) = 0
          /\ LET s == write_reg(Entry, 1, 10)
             IN  /\ s.resp_fifo[2] = 2
                 /\ s.stat_code.spindle_motor_on
                 /\ s.mode = 0
          /\ LET s == write_reg(Entry, 1, 21)
             IN  /\ Bit(s.resp_fifo[2], 6) = 1
                 /\ ReadStateBits(s.stat_code) = <<FALSE, TRUE, FALSE>>
    /\ ~failed =>
          /\ \A sector_type \in disk_read_kinds(disk) :
                 ReadStateBits(step(Entry, sector_type).stat_code)
                     = ReadStateBits(stat_code)
          /\ \A reg \in 0..3 :
                 /\ ReadStateBits(read_reg(Entry, reg).stat_code)
                        = ReadStateBits(stat_code)
                 /\ (reg # 1 \/ reg_status.index # 0) =>
                        \A val \in {0, 1, 7, 64, 128, 255} :
                            ReadStateBits(write_reg(Entry, reg, val).stat_code)
                                = ReadStateBits(stat_code)
          /\ \A image \in {"blank", "data", "mixed"} :
                 ReadStateBits(insert_disk_file(Entry, image).stat_code)
                     = ReadStateBits(stat_code)

\* Init was issued while the drive was Reading: the first byte carries the
\* reading bit, the second is spindle_motor_on alone, and the mode is 0.
C18_Witness ==
    /\ ~failed
    /\ irq_fifo = <<FirstInt3, SecondInt2>>
    /\ Len(resp_fifo) = 2
    /\ Bit(resp_fifo[1], 5) = 1
    /\ resp_fifo[2] = 2
    /\ mode = 0
    /\ ~stat_code.reading

\* The response kinds and byte lists the drive pushes.
ResponseTypes == {FirstInt3, SecondInt2, SecondInt1, ErrorInt5}
ResponseBytes == {<<StatByte(stat_code)>>, <<17, 64>>, <<2, 0, 32, 0>>}

\* C19: with 16 bytes in resp_fifo, pushing a response leaves resp_fifo as it
\* is and appends the response's interrupt code to irq_fifo; a sector
\* delivery by step() then adds INT1 to irq_fifo and no byte to resp_fifo.
C19_FullRespDropsByteKeepsCode ==
    (~failed /\ Len(resp_fifo) = MAX_FIFO_SIZE) =>
        /\ \A type \in ResponseTypes, bytes \in ResponseBytes :
               LET s == push_response(Entry, type, bytes)
               IN  /\ s.resp_fifo = resp_fifo
                   /\ s.irq_fifo = Append(irq_fifo, type)
        /\ (stat_code.reading /\ steps_until_read_sect = 1) =>
               LET s == step(Entry, "Data")
               IN  /\ s.resp_fifo = resp_fifo
                   /\ s.irq_fifo = Append(irq_fifo, SecondInt1)
                   /\ Len(s.irq_fifo) > Len(s.resp_fifo)

\* Two sector deliveries found resp_fifo full: two INT1 codes have no byte.
C19_Witness ==
    /\ ~failed
    /\ disk = "data"
    /\ stat_code.reading
    /\ Len(resp_fifo) = MAX_FIFO_SIZE
    /\ Len(irq_fifo) = MAX_FIFO_SIZE + 2
    /\ irq_fifo[MAX_FIFO_SIZE + 2] = SecondInt1
    /\ param_fifo = <<>>

\* The number of parameters a command takes from param_fifo.
ParamsTaken(cmd) ==
    CASE cmd = 2 -> 3
      [] cmd = 13 -> 2
      [] cmd \in {14, 20, 25} -> 1
      [] OTHER -> 0

\* The cases in which execute_command stops at a contract.
ContractFails(cmd, params) ==
    \/ Len(params) < ParamsTaken(cmd)
    \/ cmd = 14 /\ params # <<>> /\ Bit(Head(params), 4) = 1
    \/ cmd \in {3, 17} /\ params # <<>>

\* The drive holding only the parameters the command takes.
WithoutExtraParams(cmd) ==
    [Entry EXCEPT !.param_fifo =
        SubSeq(@, 1, IF Len(@) < ParamsTaken(cmd) THEN Len(@)
                     ELSE ParamsTaken(cmd))]

\* C20: a command stops at a failed contract exactly when it is Setloc with
\* fewer than 3 parameters, Setfilter with fewer than 2, Setmode, GetTD or
\* Test with none, Setmode with bit 4 set in its parameter, or Play/0x11 with
\* a parameter; a parameter write stops exactly when param_fifo holds 16
\* bytes.  Every other command completes, with the result it has without
\* the extra parameters, and leaves param_fifo empty.
C20_ContractFailuresExactly ==
    /\ CommandReady =>
          \A cmd \in Commands \cup UnknownCommands :
              LET s == write_reg(Entry, 1, cmd)
              IN  /\ s.failed <=> ContractFails(cmd, param_fifo)
                  /\ ~s.failed =>
                         /\ s.param_fifo = <<>>
                         /\ s = write_reg(WithoutExtraParams(cmd), 1, cmd)
    /\ CommandReady =>
          \A val \in {0, 16, 255} :
              write_reg(Entry, 2, val).failed
                  <=> Len(param_fifo) >= MAX_FIFO_SIZE

\* Setmode stopped at its contract on bit 4: the first response was pushed
\* and the parameter taken, the mode is as it was.
C20_Witness ==
    /\ failed
    /\ param_fifo = <<>>
    /\ irq_fifo = <<FirstInt3>>
    /\ Len(resp_fifo) = 1
    /\ mode = 10
    /\ ~reg_status.transmit_busy

====
